---- MODULE Spec2Model ----
(***************************************************************************)
(* A model of src/script.js: the controller classes of the animation       *)
(* playground (AnimationController, LoadingManager, ModalManager), the     *)
(* rate limiters debounce and throttle, and performCalculations.           *)
(*                                                                         *)
(* Every method is an operator from the object it is called on and the     *)
(* window (the browser's timer table) to their values after the call; an   *)
(* action applies one method, or runs one timer callback, to completion,   *)
(* as the single-threaded event loop does.                                 *)
(*                                                                         *)
(* Interval timers and the modal's timeout may fire at any moment after    *)
(* they are set: the period is not modelled for them, which covers every   *)
(* timing the browser can produce.  The timeouts of debounce and throttle  *)
(* are timed: the clock window.now does not pass a timeout that is due.    *)
(***************************************************************************)
EXTENDS Integers, Sequences, FiniteSets, TLC

\* Timer handles are issued 1, 2, ...; the controllers' interval timers are
\* no longer started once this many handles have been issued.
MaxTimerId == 3

\* The modal is no longer closed once this many handles have been issued.
MaxCloses == 5

\* The rate limiters are made with a wait or limit of 1 .. MaxDelay clock
\* units and called with an argument of 1 .. MaxArg; the clock stops at
\* MaxTime and at most MaxCalls wrapper calls are made.
MaxDelay == 2
MaxArg == 2
MaxTime == 5
MaxCalls == 3

\* performCalculations is called with the integers -MaxNumber .. MaxNumber
\* (and with values that are no finite number); a factorial loop that has
\* not ended is followed up to i = MaxIterations.
MaxNumber == 20
MaxIterations == 22

\* The card is flipped at most MaxFlips times between two resets, and the
\* scope demonstration is run at most MaxScopeCalls times.
MaxFlips == 5
MaxScopeCalls == 20

\* this.animationInterval = null (a handle is a positive number, never 0).
Null == 0

VARIABLES
    window,          \* [timers, nextTimerId, now]: the timers that are live
    animatedBox,     \* the AnimationController and its box element
    loadingManager,  \* the LoadingManager, its bar and its status element
    modalManager,    \* the ModalManager, its modal and the modal's content
    debounced,       \* the closures of the wrappers debounce has returned
    throttled,       \* the closures of the wrappers throttle has returned
    trace,           \* the wrapper calls made and the calls of func they led to
    calculation,     \* the call of performCalculations: where it is, its locals
    flipCard,        \* the FlipCardManager and its card element
    flips,           \* the number of flip calls since the last reset
    globalCounter,   \* let globalCounter
    scopeOutput,     \* the element #scopeOutput
    beat             \* flips when a timed run of an interval callback is taken

vars == <<window, animatedBox, loadingManager, modalManager,
          debounced, throttled, trace, calculation,
          flipCard, flips, globalCounter, scopeOutput, beat>>

----------------------------------------------------------------------------
(* The window's timers.                                                    *)

Timer(id, callback, env, due, repeat) ==
    [id |-> id, callback |-> callback, env |-> env, due |-> due, repeat |-> repeat]

\* setInterval(callback, delay): a fresh handle, the timer added to the table.
\* env is the value of the variable the callback closes over.
setInterval(win, callback, env, delay) ==
    [id |-> win.nextTimerId,
     window |-> [win EXCEPT
        !.timers = @ \cup {Timer(win.nextTimerId, callback, env, win.now + delay, TRUE)},
        !.nextTimerId = @ + 1]]

\* setTimeout(callback, delay): as setInterval, for a timer that runs once.
setTimeout(win, callback, env, delay) ==
    [id |-> win.nextTimerId,
     window |-> [win EXCEPT
        !.timers = @ \cup {Timer(win.nextTimerId, callback, env, win.now + delay, FALSE)},
        !.nextTimerId = @ + 1]]

\* clearInterval(id) / clearTimeout(id): no effect when id names no live timer.
clearInterval(win, id) ==
    [win EXCEPT !.timers = {t \in @ : t.id # id}]

\* The timeouts of the rate limiters that are due; the event loop runs them
\* before the clock moves on.
Due(win) ==
    {t \in win.timers : t.callback \in {"later", "releaseThrottle"} /\ t.due <= win.now}

\* The live timers that run the given callback.
Live(win, callback) == {t \in win.timers : t.callback = callback}

Result(this, win) == [this |-> this, window |-> win]

----------------------------------------------------------------------------
(* function performCalculations.  A value is [type, kind, val]; the finite *)
(* numbers of the model are integers.  The factorial, which outgrows the   *)
(* integers of the model, is kept as limbs: its digits in base 10000,    *)
(* lowest first.                                                           *)

Value(type, kind, val) == [type |-> type, kind |-> kind, val |-> val]
Finite(n) == Value("number", "finite", n)
NaN == Value("number", "NaN", 0)
Infinity == Value("number", "Infinity", 0)
NegativeInfinity == Value("number", "-Infinity", 0)
UndefinedValue == Value("undefined", "", 0)
Big(limbs) == [type |-> "number", kind |-> "finite", limbs |-> limbs]

\* The arguments performCalculations is called with.
Inputs ==
    {Finite(n) : n \in (0 - MaxNumber) .. MaxNumber}
      \cup {NaN, Infinity, NegativeInfinity, UndefinedValue,
            Value("string", "", 0), Value("object", "", 0), Value("boolean", "", 0)}

typeof(value) == value.type
isNaN(value) == value.kind = "NaN"

\* a < 0, a === n and i <= a, for a number a and integers n, i.
Negative(a) == a.kind = "-Infinity" \/ (a.kind = "finite" /\ a.val < 0)
Is(a, n) == a.kind = "finite" /\ a.val = n
AtMost(i, a) == a.kind = "Infinity" \/ (a.kind = "finite" /\ i <= a.val)

\* a * b
Times(a, b) ==
    IF a.kind = "NaN" \/ b.kind = "NaN" THEN NaN
    ELSE IF a.kind = "finite" /\ b.kind = "finite" THEN Finite(a.val * b.val)
    ELSE IF Is(a, 0) \/ Is(b, 0) THEN NaN
    ELSE IF Negative(a) = Negative(b) THEN Infinity
    ELSE NegativeInfinity

\* Math.sqrt(a).toFixed(2): the root rounded to hundredths, as a string.
Hundredths(n) ==
    CHOOSE h \in 0 .. 100 * (n + 1) :
        /\ (h = 0 \/ (2 * h - 1) * (2 * h - 1) <= 40000 * n)
        /\ 40000 * n < (2 * h + 1) * (2 * h + 1)

SquareRoot(a) ==
    IF a.kind = "Infinity" THEN "Infinity"
    ELSE IF a.kind # "finite" \/ a.val < 0 THEN "NaN"
    ELSE LET h == Hundredths(a.val)
         IN  ToString(h \div 100) \o "." \o ToString((h % 100) \div 10)
                \o ToString(h % 10)

\* result *= i, on limbs.
RECURSIVE TimesLimbs(_, _, _)
TimesLimbs(limbs, i, carry) ==
    IF limbs = <<>>
    THEN IF carry = 0 THEN <<>>
         ELSE <<carry % 10000>> \o TimesLimbs(<<>>, i, carry \div 10000)
    ELSE LET product == Head(limbs) * i + carry
         IN  <<product % 10000>> \o TimesLimbs(Tail(limbs), i, product \div 10000)

Returned(number, object, factorial) ==
    [pc |-> "returned", number |-> number,
     object |-> [squared |-> object.squared, cubed |-> object.cubed,
                 squareRoot |-> object.squareRoot, isEven |-> object.isEven,
                 factorial |-> factorial]]

\* The call up to the factorial's loop: the check of the argument, the
\* fields computed before the factorial, the factorial's two early returns.
performCalculations(number) ==
    IF typeof(number) # "number" \/ isNaN(number)
    THEN [pc |-> "thrown", number |-> number,
          error |-> "Invalid input: must be a number"]
    ELSE LET object == [squared |-> Times(number, number),
                        cubed |-> Times(Times(number, number), number),
                        squareRoot |-> SquareRoot(number),
                        isEven |-> number.kind = "finite" /\ number.val % 2 = 0]
         IN  IF Negative(number) THEN Returned(number, object, UndefinedValue)
             ELSE IF Is(number, 0) \/ Is(number, 1)
                  THEN Returned(number, object, Big(<<1>>))
             ELSE [pc |-> "factorial", number |-> number, object |-> object,
                   i |-> 2, result |-> <<1>>]

\* The loop with `i < number` in place of `i <= number`.
factorialLoopShort(c) ==
    IF c.i < c.number.val
    THEN [c EXCEPT !.result = TimesLimbs(@, c.i, 0), !.i = @ + 1]
    ELSE Returned(c.number, c.object, Big(c.result))

\* One test of `i <= number`, and the loop's body or the return after it.
factorialLoop(c) ==
    IF AtMost(c.i, c.number)
    THEN [c EXCEPT !.result = TimesLimbs(@, c.i, 0), !.i = @ + 1]
    ELSE Returned(c.number, c.object, Big(c.result))

----------------------------------------------------------------------------
(* function demonstrateScope.  innerHTML is kept as the lines written.     *)

\* The function with localCounter declared beside globalCounter, so that it
\* too persists between calls.
demonstrateScopeShared(counter) ==
    LET global == counter + 1
        localCounter == counter + 1
        innerCounter == localCounter + 10
    IN  [globalCounter |-> global,
         output |-> [innerHTML |->
            <<"<strong>Scope Demonstration:</strong>",
              "Global Counter: " \o ToString(global),
              "Local Counter: " \o ToString(localCounter),
              "<small>Note: Local counter resets each call, global persists</small>",
              "Inner function result: " \o ToString(innerCounter)>>]]

\* counter is globalCounter before the call.
demonstrateScope(counter) ==
    LET global == counter + 1
        localCounter == 0 + 1
        innerCounter == localCounter + 10
    IN  [globalCounter |-> global,
         output |-> [innerHTML |->
            <<"<strong>Scope Demonstration:</strong>",
              "Global Counter: " \o ToString(global),
              "Local Counter: " \o ToString(localCounter),
              "<small>Note: Local counter resets each call, global persists</small>",
              "Inner function result: " \o ToString(innerCounter)>>]]

----------------------------------------------------------------------------
(* function toggleClass and class FlipCardManager                          *)

\* force is "true", "false" or, when the argument is left out, "undefined".
toggleClass(element, className, force) ==
    IF force = "true" THEN [element EXCEPT !.classList = @ \cup {className}]
    ELSE IF force = "false" THEN [element EXCEPT !.classList = @ \ {className}]
    ELSE IF className \in element.classList
         THEN [element EXCEPT !.classList = @ \ {className}]
         ELSE [element EXCEPT !.classList = @ \cup {className}]

NewFlipCardManager == [isFlipped |-> FALSE, card |-> [classList |-> {}]]

flip(this) ==
    LET isFlipped == ~this.isFlipped
    IN  [this EXCEPT !.isFlipped = isFlipped,
                     !.card = toggleClass(@, "flipped",
                                          IF isFlipped THEN "true" ELSE "false")]

\* reset without `this.card.classList.remove('flipped')`.
resetKeepingClass(this) == [this EXCEPT !.isFlipped = FALSE]

reset(this) ==
    [this EXCEPT !.isFlipped = FALSE, !.card.classList = @ \ {"flipped"}]

----------------------------------------------------------------------------
(* class AnimationController                                               *)

DefaultBackground == "linear-gradient(45deg, #667eea, #764ba2)"

NewAnimationController ==
    [isAnimating |-> FALSE,
     animationInterval |-> Null,
     box |-> [classList |-> {}, style |-> [transform |-> "", background |-> ""]]]

\* startAnimation without its first line, `if (this.isAnimating) return`.
startAnimationUnguarded(this, win) ==
    LET set == setInterval(win, "animationTick", 0, 50)
    IN  Result([this EXCEPT !.isAnimating = TRUE,
                            !.box.classList = @ \cup {"animate"},
                            !.animationInterval = set.id],
               set.window)

startAnimation(this, win) ==
    IF this.isAnimating THEN Result(this, win)
    ELSE LET set == setInterval(win, "animationTick", 0, 50)
         IN  Result([this EXCEPT !.isAnimating = TRUE,
                                 !.box.classList = @ \cup {"animate"},
                                 !.animationInterval = set.id],
                    set.window)

\* The tick with `rotation + 2` in place of `(rotation + 2) % 360`.
animationTickUnwrapped(this, win, t) ==
    LET rotation == t.env + 2
    IN  Result([this EXCEPT !.box.style.transform =
                                "rotate(" \o ToString(rotation) \o "deg)"],
               [win EXCEPT !.timers = (@ \ {t}) \cup {[t EXCEPT !.env = rotation]}])

\* The interval callback of timer t, whose closure holds rotation = t.env.
animationTick(this, win, t) ==
    LET rotation == (t.env + 2) % 360
    IN  Result([this EXCEPT !.box.style.transform =
                                "rotate(" \o ToString(rotation) \o "deg)"],
               [win EXCEPT !.timers = (@ \ {t}) \cup {[t EXCEPT !.env = rotation]}])

\* stopAnimation that forgets the handle without calling clearInterval.
stopAnimationLeaking(this, win) ==
    Result([this EXCEPT !.isAnimating = FALSE,
                        !.box.classList = @ \ {"animate"},
                        !.animationInterval = Null],
           win)

stopAnimation(this, win) ==
    Result([this EXCEPT !.isAnimating = FALSE,
                        !.box.classList = @ \ {"animate"},
                        !.animationInterval = Null],
           IF this.animationInterval # Null
           THEN clearInterval(win, this.animationInterval)
           ELSE win)

\* resetAnimation without its first line, `this.stopAnimation()`.
resetAnimationRunning(this, win) ==
    Result([this EXCEPT !.box.style.transform = "rotate(0deg)",
                        !.box.style.background = DefaultBackground],
           win)

resetAnimation(this, win) ==
    LET stopped == stopAnimation(this, win)
    IN  Result([stopped.this EXCEPT !.box.style.transform = "rotate(0deg)",
                                    !.box.style.background = DefaultBackground],
               stopped.window)

----------------------------------------------------------------------------
(* class LoadingManager                                                    *)

\* The status element's text before the script first writes it comes from
\* the markup; the script itself writes only the three texts below.
NewLoadingManager ==
    [isLoading |-> FALSE,
     loadingInterval |-> Null,
     loadingBar |-> [classList |-> {}],
     statusElement |-> [textContent |-> ""]]

\* Math.random() * 10 lies in [0, 10); the model draws it in whole units.
RandomStep == 0 .. 9

\* startLoading without its first line, `if (this.isLoading) return`.
startLoadingUnguarded(this, win) ==
    LET set == setInterval(win, "loadingTick", 0, 200)
    IN  Result([this EXCEPT !.isLoading = TRUE,
                            !.loadingBar.classList = @ \cup {"loading"},
                            !.statusElement.textContent = "Loading...",
                            !.loadingInterval = set.id],
               set.window)

\* startLoading with `let progress = 50` in place of `let progress = 0`.
startLoadingHalfway(this, win) ==
    IF this.isLoading THEN Result(this, win)
    ELSE LET set == setInterval(win, "loadingTick", 50, 200)
         IN  Result([this EXCEPT !.isLoading = TRUE,
                                 !.loadingBar.classList = @ \cup {"loading"},
                                 !.statusElement.textContent = "Loading...",
                                 !.loadingInterval = set.id],
                    set.window)

startLoading(this, win) ==
    IF this.isLoading THEN Result(this, win)
    ELSE LET set == setInterval(win, "loadingTick", 0, 200)
         IN  Result([this EXCEPT !.isLoading = TRUE,
                                 !.loadingBar.classList = @ \cup {"loading"},
                                 !.statusElement.textContent = "Loading...",
                                 !.loadingInterval = set.id],
                    set.window)

\* stopLoading that forgets the handle without calling clearInterval.
stopLoadingLeaking(this, win) ==
    Result([this EXCEPT !.isLoading = FALSE,
                        !.loadingBar.classList = @ \ {"loading"},
                        !.statusElement.textContent = "Stopped",
                        !.loadingInterval = Null],
           win)

stopLoading(this, win) ==
    Result([this EXCEPT !.isLoading = FALSE,
                        !.loadingBar.classList = @ \ {"loading"},
                        !.statusElement.textContent = "Stopped",
                        !.loadingInterval = Null],
           IF this.loadingInterval # Null
           THEN clearInterval(win, this.loadingInterval)
           ELSE win)

\* finishLoading without `this.loadingBar.classList.remove('loading')`.
finishLoadingKeepingClass(this, win) ==
    Result([this EXCEPT !.isLoading = FALSE,
                        !.statusElement.textContent = "Complete!",
                        !.loadingInterval = Null],
           IF this.loadingInterval # Null
           THEN clearInterval(win, this.loadingInterval)
           ELSE win)

finishLoading(this, win) ==
    Result([this EXCEPT !.isLoading = FALSE,
                        !.loadingBar.classList = @ \ {"loading"},
                        !.statusElement.textContent = "Complete!",
                        !.loadingInterval = Null],
           IF this.loadingInterval # Null
           THEN clearInterval(win, this.loadingInterval)
           ELSE win)

\* The tick with `let progress = 0` declared inside the callback, so that
\* no tick sees the increments of the ticks before it.
loadingTickForgetting(this, win, t, random) ==
    LET progress == 0 + random
    IN  IF progress >= 100
        THEN finishLoading(this, win)
        ELSE Result(this, win)

\* The tick with `progress > 100` in place of `progress >= 100`.
loadingTickStrict(this, win, t, random) ==
    LET progress == t.env + random
        ticked == [win EXCEPT !.timers = (@ \ {t}) \cup {[t EXCEPT !.env = progress]}]
    IN  IF progress > 100
        THEN finishLoading(this, ticked)
        ELSE Result(this, ticked)

\* The interval callback of timer t, whose closure holds progress = t.env;
\* random is the value of Math.random() * 10 in this tick.
loadingTick(this, win, t, random) ==
    LET progress == t.env + random
        ticked == [win EXCEPT !.timers = (@ \ {t}) \cup {[t EXCEPT !.env = progress]}]
    IN  IF progress >= 100
        THEN finishLoading(this, ticked)
        ELSE Result(this, ticked)

----------------------------------------------------------------------------
(* class ModalManager                                                      *)

\* content is the element this.modal.querySelector('.modal-content') finds.
NewModalManager ==
    [modal |-> [style |-> [display |-> ""],
                content |-> [style |-> [animation |-> ""]]]]

open(this, win) ==
    Result([this EXCEPT !.modal.style.display = "block",
                        !.modal.content.style.animation = "modalSlideIn 0.5s ease-out"],
           win)

close(this, win) ==
    Result([this EXCEPT !.modal.content.style.animation = "modalSlideOut 0.3s ease-in"],
           setTimeout(win, "modalHide", 0, 300).window)

\* The timeout callback without `modalContent.style.animation = ''`.
modalHideKeepingAnimation(this, win, t) ==
    Result([this EXCEPT !.modal.style.display = "none"],
           [win EXCEPT !.timers = @ \ {t}])

\* The timeout callback of close, run as timer t (which is then spent).
modalHide(this, win, t) ==
    Result([this EXCEPT !.modal.style.display = "none",
                        !.modal.content.style.animation = ""],
           [win EXCEPT !.timers = @ \ {t}])

----------------------------------------------------------------------------
(* debounce and throttle.  A wrapper is the closure it runs in; its methods *)
(* also return func, the arguments func was called with during the call.   *)

Undefined == 0

Called(this, win, func) == [this |-> this, window |-> win, func |-> func]

\* debounce(func, wait): `let timeout;` and the wrapper returned.
debounce(wait) == [timeout |-> Undefined, wait |-> wait]

\* executedFunction without its `clearTimeout(timeout)`.
executedFunctionKeeping(this, win, args) ==
    LET set == setTimeout(win, "later", args, this.wait)
    IN  Called([this EXCEPT !.timeout = set.id], set.window, <<>>)

\* The wrapper called with args; the timeout set holds them for `later`.
executedFunction(this, win, args) ==
    LET set == setTimeout(clearInterval(win, this.timeout), "later", args, this.wait)
    IN  Called([this EXCEPT !.timeout = set.id], set.window, <<>>)

\* `later`, run as timer t (which is then spent), whose closure holds args.
later(this, win, t) ==
    Called(this, clearInterval([win EXCEPT !.timers = @ \ {t}], this.timeout), <<t.env>>)

\* throttle(func, limit): `let inThrottle;` and the wrapper returned.
throttle(limit) == [inThrottle |-> "undefined", limit |-> limit]

\* !inThrottle
Not(value) == value \in {"undefined", "false"}

\* The wrapper that never sets `inThrottle = true`.
throttledCallOpen(this, win, args) ==
    IF Not(this.inThrottle)
    THEN Called(this, setTimeout(win, "releaseThrottle", 0, this.limit).window, <<args>>)
    ELSE Called(this, win, <<>>)

\* The wrapper called with args.
throttledCall(this, win, args) ==
    IF Not(this.inThrottle)
    THEN Called([this EXCEPT !.inThrottle = "true"],
                setTimeout(win, "releaseThrottle", 0, this.limit).window,
                <<args>>)
    ELSE Called(this, win, <<>>)

\* `() => inThrottle = false`, run as timer t (which is then spent).
releaseThrottle(this, win, t) ==
    Called([this EXCEPT !.inThrottle = "false"], [win EXCEPT !.timers = @ \ {t}], <<>>)

----------------------------------------------------------------------------
(* The page: construction and the listeners.                               *)

Init ==
    /\ window = [timers |-> {}, nextTimerId |-> 1, now |-> 0]
    /\ animatedBox = NewAnimationController
    /\ loadingManager = NewLoadingManager
    /\ modalManager = NewModalManager
    /\ debounced = {}
    /\ throttled = {}
    /\ trace = <<>>
    /\ calculation = [pc |-> "idle"]
    /\ flipCard = NewFlipCardManager
    /\ flips = 0
    /\ globalCounter = 0
    /\ scopeOutput = [innerHTML |-> <<>>]
    /\ beat = FALSE

AnimReturns(r) ==
    /\ animatedBox' = r.this
    /\ window' = r.window
    /\ UNCHANGED <<loadingManager, modalManager, debounced, throttled, trace, calculation,
                   flipCard, flips, globalCounter, scopeOutput, beat>>

StartAnimation ==
    /\ animatedBox.isAnimating \/ window.nextTimerId <= MaxTimerId
    /\ AnimReturns(startAnimation(animatedBox, window))

StopAnimation ==
    AnimReturns(stopAnimation(animatedBox, window))

ResetAnimation ==
    AnimReturns(resetAnimation(animatedBox, window))

AnimationTick ==
    \E t \in Live(window, "animationTick") :
        LET r == animationTick(animatedBox, window, t)
        IN  AnimReturns(r)

NextAnimation ==
    \/ StartAnimation
    \/ StopAnimation
    \/ ResetAnimation
    \/ AnimationTick

SpecAnimation == Init /\ [][NextAnimation]_vars

LoadReturns(r) ==
    /\ loadingManager' = r.this
    /\ window' = r.window
    /\ UNCHANGED <<animatedBox, modalManager, debounced, throttled, trace, calculation,
                   flipCard, flips, globalCounter, scopeOutput, beat>>

StartLoading ==
    /\ loadingManager.isLoading \/ window.nextTimerId <= MaxTimerId
    /\ LoadReturns(startLoading(loadingManager, window))

StopLoading ==
    LoadReturns(stopLoading(loadingManager, window))

LoadingTick ==
    \E t \in Live(window, "loadingTick") : \E random \in RandomStep :
        LET r == loadingTick(loadingManager, window, t, random)
        IN  LoadReturns(r)

NextLoading ==
    \/ StartLoading
    \/ StopLoading
    \/ LoadingTick

SpecLoading == Init /\ [][NextLoading]_vars

\* The interval callback run by the clock: every 200 ms one run is due, and
\* beat tells two consecutive runs apart even when Math.random() gave 0.
LoadingTickFired ==
    \E t \in Live(window, "loadingTick") : \E random \in RandomStep :
        LET r == loadingTick(loadingManager, window, t, random)
        IN  /\ loadingManager' = r.this
            /\ window' = r.window
            /\ beat' = ~beat
            /\ UNCHANGED <<animatedBox, modalManager, debounced, throttled, trace,
                           calculation, flipCard, flips, globalCounter, scopeOutput>>

NextLoadingTimed ==
    \/ StartLoading
    \/ StopLoading
    \/ LoadingTickFired

\* setInterval keeps running the callback of a live timer.
SpecLoadingFair == Init /\ [][NextLoadingTimed]_vars /\ WF_vars(LoadingTickFired)

\* Both interval-driven controllers on one page, sharing the window.
SpecControllers == Init /\ [][NextAnimation \/ NextLoading]_vars

ModalReturns(r) ==
    /\ modalManager' = r.this
    /\ window' = r.window
    /\ UNCHANGED <<animatedBox, loadingManager, debounced, throttled, trace, calculation,
                   flipCard, flips, globalCounter, scopeOutput, beat>>

OpenModal ==
    ModalReturns(open(modalManager, window))

\* #closeModal, .close, and a click on the modal outside its content.
CloseModal ==
    /\ window.nextTimerId <= MaxCloses
    /\ ModalReturns(close(modalManager, window))

ModalHide ==
    \E t \in Live(window, "modalHide") :
        ModalReturns(modalHide(modalManager, window, t))

NextModal ==
    \/ OpenModal
    \/ CloseModal
    \/ ModalHide

SpecModal == Init /\ [][NextModal]_vars

\* A timeout that has been set is run by the event loop.
SpecModalFair == SpecModal /\ WF_vars(ModalHide)

\* The clock moves on, once the timeouts that are due have run.
Advance ==
    /\ window.now < MaxTime
    /\ Due(window) = {}
    /\ window' = [window EXCEPT !.now = @ + 1]
    /\ UNCHANGED <<animatedBox, loadingManager, modalManager,
                   debounced, throttled, trace, calculation,
                   flipCard, flips, globalCounter, scopeOutput, beat>>

Event(kind, args) == [kind |-> kind, args |-> args, at |-> window.now]

Invocations(func) == [i \in 1 .. Len(func) |-> Event("func", func[i])]

NumCalls == Cardinality({i \in 1 .. Len(trace) : trace[i].kind = "call"})

DebounceReturns(r, events) ==
    /\ debounced' = {r.this}
    /\ window' = r.window
    /\ trace' = trace \o events \o Invocations(r.func)
    /\ UNCHANGED <<animatedBox, loadingManager, modalManager, throttled, calculation,
                   flipCard, flips, globalCounter, scopeOutput, beat>>

Debounce ==
    /\ debounced = {}
    /\ \E wait \in 1 .. MaxDelay : debounced' = {debounce(wait)}
    /\ UNCHANGED <<window, animatedBox, loadingManager, modalManager,
                   throttled, trace, calculation,
                   flipCard, flips, globalCounter, scopeOutput, beat>>

DebouncedCall ==
    /\ NumCalls < MaxCalls
    /\ \E this \in debounced : \E args \in 1 .. MaxArg :
          DebounceReturns(executedFunction(this, window, args),
                          <<Event("call", args)>>)

Later ==
    \E this \in debounced : \E t \in Live(window, "later") \cap Due(window) :
        DebounceReturns(later(this, window, t), <<>>)

NextDebounce ==
    \/ Debounce
    \/ DebouncedCall
    \/ Later
    \/ Advance

SpecDebounce == Init /\ [][NextDebounce]_vars

ThrottleReturns(r, events) ==
    /\ throttled' = {r.this}
    /\ window' = r.window
    /\ trace' = trace \o events \o Invocations(r.func)
    /\ UNCHANGED <<animatedBox, loadingManager, modalManager, debounced, calculation,
                   flipCard, flips, globalCounter, scopeOutput, beat>>

Throttle ==
    /\ throttled = {}
    /\ \E limit \in 1 .. MaxDelay : throttled' = {throttle(limit)}
    /\ UNCHANGED <<window, animatedBox, loadingManager, modalManager,
                   debounced, trace, calculation,
                   flipCard, flips, globalCounter, scopeOutput, beat>>

ThrottledCall ==
    /\ NumCalls < MaxCalls
    /\ \E this \in throttled : \E args \in 1 .. MaxArg :
          ThrottleReturns(throttledCall(this, window, args),
                          <<Event("call", args)>>)

ReleaseThrottle ==
    \E this \in throttled :
        \E t \in Live(window, "releaseThrottle") \cap Due(window) :
            ThrottleReturns(releaseThrottle(this, window, t), <<>>)

NextThrottle ==
    \/ Throttle
    \/ ThrottledCall
    \/ ReleaseThrottle
    \/ Advance

SpecThrottle == Init /\ [][NextThrottle]_vars

\* A call of performCalculations, when no call is running.
Calculate ==
    /\ calculation.pc # "factorial"
    /\ \E number \in Inputs : calculation' = performCalculations(number)
    /\ UNCHANGED <<window, animatedBox, loadingManager, modalManager,
                   debounced, throttled, trace,
                   flipCard, flips, globalCounter, scopeOutput, beat>>

FactorialLoop ==
    /\ calculation.pc = "factorial"
    /\ calculation.i <= MaxIterations
    /\ calculation' = factorialLoop(calculation)
    /\ UNCHANGED <<window, animatedBox, loadingManager, modalManager,
                   debounced, throttled, trace,
                   flipCard, flips, globalCounter, scopeOutput, beat>>

NextCalculation ==
    \/ Calculate
    \/ FactorialLoop

SpecCalculation == Init /\ [][NextCalculation]_vars

\* #flipBtn and the card itself.
Flip ==
    /\ flips < MaxFlips
    /\ flipCard' = flip(flipCard)
    /\ flips' = flips + 1
    /\ UNCHANGED <<window, animatedBox, loadingManager, modalManager, debounced,
                   throttled, trace, calculation, globalCounter, scopeOutput, beat>>

ResetFlip ==
    /\ flipCard' = reset(flipCard)
    /\ flips' = 0
    /\ UNCHANGED <<window, animatedBox, loadingManager, modalManager, debounced,
                   throttled, trace, calculation, globalCounter, scopeOutput, beat>>

DemonstrateScope ==
    /\ globalCounter < MaxScopeCalls
    /\ LET r == demonstrateScope(globalCounter)
       IN  /\ globalCounter' = r.globalCounter
           /\ scopeOutput' = r.output
    /\ UNCHANGED <<window, animatedBox, loadingManager, modalManager, debounced,
                   throttled, trace, calculation, flipCard, flips, beat>>

NextWidgets ==
    \/ Flip
    \/ ResetFlip
    \/ DemonstrateScope

\* The flip card and the scope demonstration, the page's parts without timers.
SpecWidgets == Init /\ [][NextWidgets]_vars

Next ==
    \/ NextWidgets
    \/ LoadingTickFired
    \/ NextAnimation
    \/ NextLoading
    \/ NextModal
    \/ NextDebounce
    \/ NextThrottle
    \/ NextCalculation

----------------------------------------------------------------------------
(* Properties.                                                             *)

AnimationTimers == Live(window, "animationTick")
LoadingTimers == Live(window, "loadingTick")
Status == loadingManager.statusElement.textContent

\* C1: the AnimationController never has more than one live interval timer;
\* startAnimation called while animating changes nothing, and two calls of
\* startAnimation in a row leave exactly one live timer.
C1_OneAnimationTimer ==
    /\ Cardinality(AnimationTimers) <= 1
    /\ animatedBox.isAnimating =>
           startAnimation(animatedBox, window) = Result(animatedBox, window)
    /\ LET once == startAnimation(animatedBox, window)
           twice == startAnimation(once.this, once.window)
       IN  /\ twice = once
           /\ Cardinality(Live(twice.window, "animationTick")) = 1

\* An animation that was started, stopped and started again, with ticks run.
C1_Witness ==
    /\ animatedBox.isAnimating
    /\ window.nextTimerId > 2
    /\ \E t \in AnimationTimers : t.env > 0
    /\ Cardinality(AnimationTimers) = 1

\* C2: stopAnimation and stopLoading, called in any reachable state, leave
\* their controller without a live timer, and a second call changes nothing
\* the first call left.
C2_StopIdempotent ==
    LET a1 == stopAnimation(animatedBox, window)
        a2 == stopAnimation(a1.this, a1.window)
        l1 == stopLoading(loadingManager, window)
        l2 == stopLoading(l1.this, l1.window)
    IN  /\ Live(a1.window, "animationTick") = {}
        /\ a2 = a1
        /\ Live(l1.window, "loadingTick") = {}
        /\ l2 = l1

\* Both controllers stopped after their timers had ticked: the box keeps the
\* transform of its last tick (a reset would have written rotate(0deg)).
C2_Witness ==
    /\ ~animatedBox.isAnimating
    /\ animatedBox.box.style.transform = "rotate(4deg)"
    /\ Status = "Stopped"
    /\ window.nextTimerId > 2
    /\ window.timers = {}

\* C3: the LoadingManager never has more than one live interval timer, and
\* startLoading called while loading changes nothing: no second timer, and
\* the progress of the running timer is kept.
C3_OneLoadingTimer ==
    /\ Cardinality(LoadingTimers) <= 1
    /\ loadingManager.isLoading =>
           startLoading(loadingManager, window) = Result(loadingManager, window)
    /\ LET once == startLoading(loadingManager, window)
           twice == startLoading(once.this, once.window)
       IN  /\ twice = once
           /\ Cardinality(Live(twice.window, "loadingTick")) = 1

\* A second run, after the first one ended, with progress accumulated.
C3_Witness ==
    /\ loadingManager.isLoading
    /\ window.nextTimerId > 2
    /\ \E t \in LoadingTimers : t.env >= 50

Completed ==
    /\ ~loadingManager.isLoading
    /\ "loading" \notin loadingManager.loadingBar.classList
    /\ Status = "Complete!"
    /\ LoadingTimers = {}

\* C4: a live loading timer has progress below 100; the tick that takes the
\* progress to 100 or more leaves the manager Complete (not loading, class
\* removed, status 'Complete!', no live timer), and the status changes to
\* 'Complete!' in no other step.
C4_CompleteOnCrossing ==
    [][ /\ \A t \in LoadingTimers : t.env < 100
        /\ \A t \in LoadingTimers : \A random \in RandomStep :
              ( /\ LoadReturns(loadingTick(loadingManager, window, t, random))
                /\ t.env + random >= 100 ) => Completed'
        /\ (Status # "Complete!" /\ Status' = "Complete!") =>
              \E t \in LoadingTimers : \E random \in RandomStep :
                  /\ LoadReturns(loadingTick(loadingManager, window, t, random))
                  /\ t.env + random >= 100
                  /\ loadingManager.isLoading
      ]_vars

\* A run that ran to completion.
C4_Witness == Completed /\ window.nextTimerId > 1

Stopped ==
    /\ ~loadingManager.isLoading
    /\ Status = "Stopped"
    /\ LoadingTimers = {}

\* C5: stopLoading called while loading leaves the manager Stopped (not
\* loading, status 'Stopped', no live timer); while the status is 'Stopped'
\* no loading timer is live, and the status changes only by a startLoading
\* call, to 'Loading...'.
C5_StoppedStays ==
    [][ /\ (StopLoading /\ loadingManager.isLoading) => Stopped'
        /\ Status = "Stopped" => LoadingTimers = {}
        /\ (Status = "Stopped" /\ Status' # "Stopped") =>
              (StartLoading /\ Status' = "Loading...")
      ]_vars

\* A run that was stopped after it had been started.
C5_Witness == Stopped /\ window.nextTimerId > 1

Spec == Init /\ [][Next]_vars

ModalTimers == Live(window, "modalHide")
Display == modalManager.modal.style.display
Animation == modalManager.modal.content.style.animation

\* C6: the modal never has more than one timeout pending.
C6_OneModalTimeout == Cardinality(ModalTimers) <= 1

\* C7: close sets the exit animation and leaves the display as it is, with
\* its timeout pending; the timeout's callback hides the modal and clears
\* the animation; the display changes in no step but open and that callback;
\* and a pending timeout leads to the hidden state with no animation set.
C7_CloseThenHide ==
    /\ [][ /\ CloseModal =>
                   /\ Animation' = "modalSlideOut 0.3s ease-in"
                   /\ Display' = Display
                   /\ \E t \in ModalTimers' : t \notin ModalTimers
           /\ ModalHide => (Display' = "none" /\ Animation' = "")
           /\ Display' # Display => (OpenModal \/ ModalHide)
          ]_vars
    /\ (ModalTimers # {}) ~> (Display = "none" /\ Animation = "")

\* The modal was opened and closed, and the timeout has run.
C7_Witness ==
    /\ Display = "none"
    /\ Animation = ""
    /\ ModalTimers = {}
    /\ window.nextTimerId = 2

DebounceTimers == Live(window, "later")
Kinds == [i \in 1 .. Len(trace) |-> trace[i].kind]

\* C8: a debounced wrapper has at most one call of func pending; func is
\* called only for the last wrapper call made, once, with that call's
\* arguments and exactly wait after it, so never within wait of any earlier
\* wrapper call; and after the last wrapper call its call of func is either
\* pending, due wait after it, or made.
C8_DebounceLastCall ==
    \A d \in debounced :
        /\ Cardinality(DebounceTimers) <= 1
        /\ \A j \in 1 .. Len(trace) : trace[j].kind = "func" =>
              /\ j > 1
              /\ trace[j - 1].kind = "call"
              /\ trace[j].args = trace[j - 1].args
              /\ trace[j].at = trace[j - 1].at + d.wait
              /\ \A i \in 1 .. j : trace[i].kind = "call" =>
                     trace[j].at >= trace[i].at + d.wait
        /\ (trace # <<>> /\ trace[Len(trace)].kind = "call") =>
              DebounceTimers = {Timer(d.timeout, "later", trace[Len(trace)].args,
                                      trace[Len(trace)].at + d.wait, FALSE)}
        /\ (trace # <<>> /\ trace[Len(trace)].kind = "func") =>
              DebounceTimers = {}

\* A burst of three calls, each less than wait after the one before, with
\* different arguments, and then the one call of func.
C8_Witness ==
    /\ Kinds = <<"call", "call", "call", "func">>
    /\ trace[1].at < trace[2].at
    /\ trace[2].at < trace[3].at
    /\ \A d \in debounced : /\ trace[2].at < trace[1].at + d.wait
                             /\ trace[3].at < trace[2].at + d.wait
    /\ trace[1].args # trace[3].args
    /\ trace[2].args # trace[3].args

Funcs(j) == {i \in 1 .. j - 1 : trace[i].kind = "func"}
LastFunc(j) == trace[CHOOSE i \in Funcs(j) : \A k \in Funcs(j) : k <= i]
Executed(j) == j < Len(trace) /\ trace[j + 1].kind = "func"

\* C9: func is called only within a wrapper call, with that call's
\* arguments; the first wrapper call calls it; a wrapper call made less
\* than limit after the last call of func does not (and func is never called
\* for it later); a wrapper call made more than limit after the last call of
\* func does; and two calls of func are at least limit apart.
C9_ThrottleWindow ==
    \A th \in throttled : \A j \in 1 .. Len(trace) :
        /\ trace[j].kind = "func" =>
              /\ j > 1
              /\ trace[j - 1] = [trace[j] EXCEPT !.kind = "call"]
              /\ Funcs(j) # {} => trace[j].at >= LastFunc(j).at + th.limit
        /\ trace[j].kind = "call" =>
              IF Funcs(j) = {} THEN Executed(j)
              ELSE /\ trace[j].at < LastFunc(j).at + th.limit => ~Executed(j)
                   /\ trace[j].at > LastFunc(j).at + th.limit => Executed(j)

\* A call that ran func, a call within the limit that was ignored, and a
\* call after the limit that ran func again.
C9_Witness ==
    /\ Kinds = <<"call", "func", "call", "call", "func">>
    /\ trace[3].at < trace[4].at
    /\ trace[3].args # trace[1].args

FiniteNumber(value) == typeof(value) = "number" /\ value.kind = "finite"

\* C10: a call of performCalculations with an argument that is no finite
\* number (no number, NaN, Infinity, -Infinity) throws, and a call with a
\* finite number does not.
C10_NonFiniteRejected ==
    calculation.pc # "idle" =>
        (calculation.pc = "thrown" <=> ~FiniteNumber(calculation.number))

\* The factorial by its recursive definition: 0! = 1, n! = n * (n - 1)!.
RECURSIVE Factorial(_)
Factorial(n) == IF n = 0 THEN <<1>> ELSE TimesLimbs(Factorial(n - 1), n, 0)

\* C11: the factorial field of the object performCalculations returns for an
\* integer n is undefined when n < 0 and n! by the recursive definition when
\* 0 <= n; it is 1 for 0 and for 1, and 2432902008176640000 for 20.
C11_Factorial ==
    (calculation.pc = "returned" /\ FiniteNumber(calculation.number)) =>
        LET n == calculation.number.val
            factorial == calculation.object.factorial
        IN  /\ n < 0 => factorial = UndefinedValue
            /\ n >= 0 => factorial = Big(Factorial(n))
            /\ n \in {0, 1} => factorial = Big(<<1>>)
            /\ n = 5 => factorial = Big(<<120>>)
            /\ n = 20 => factorial = Big(<<0, 7664, 81, 2902, 243>>)

\* The call with 20 has returned.
C11_Witness ==
    /\ calculation.pc = "returned"
    /\ calculation.number = Finite(20)
    /\ calculation.object.factorial.limbs # <<1>>

\* C12: the card has the class 'flipped' exactly when isFlipped is true, and
\* isFlipped is true exactly when the number of flips since the last reset
\* is odd; flip inverts isFlipped, two flips restore the manager and the
\* card, and reset leaves isFlipped false and the class absent.
C12_FlipInStep ==
    /\ ("flipped" \in flipCard.card.classList) <=> flipCard.isFlipped
    /\ flipCard.isFlipped <=> (flips % 2 = 1)
    /\ flip(flipCard).isFlipped = ~flipCard.isFlipped
    /\ flip(flip(flipCard)) = flipCard
    /\ reset(flipCard) = NewFlipCardManager
    /\ reset(flip(flipCard)) = NewFlipCardManager

\* Flipped three times since the last reset.
C12_Witness ==
    /\ flips = 3
    /\ flipCard.isFlipped
    /\ "flipped" \in flipCard.card.classList

\* C14: globalCounter starts at 0; a call of demonstrateScope adds exactly 1
\* to it and writes it, a local counter of 1 and an inner result of 11 to
\* the output; no other step changes it.
C14_GlobalCounter ==
    /\ globalCounter = 0
    /\ [][ /\ DemonstrateScope =>
                   /\ globalCounter' = globalCounter + 1
                   /\ scopeOutput'.innerHTML[2] =
                          "Global Counter: " \o ToString(globalCounter + 1)
                   /\ scopeOutput'.innerHTML[3] = "Local Counter: 1"
                   /\ scopeOutput'.innerHTML[5] = "Inner function result: 11"
           /\ globalCounter' # globalCounter => DemonstrateScope
           /\ globalCounter' >= globalCounter
          ]_vars

\* The demonstration run three times.
C14_Witness ==
    /\ globalCounter = 3
    /\ scopeOutput.innerHTML[2] = "Global Counter: 3"
    /\ scopeOutput.innerHTML[3] = "Local Counter: 1"

Transform == animatedBox.box.style.transform

\* C13: resetAnimation, in any reachable state, leaves the controller not
\* animating, without the 'animate' class and without a live timer, with
\* the transform 'rotate(0deg)' and the default background; and while the
\* controller is not animating a transform of 'rotate(0deg)' stays.
C13_ResetRestores ==
    [][ /\ ResetAnimation =>
                /\ ~animatedBox'.isAnimating
                /\ animatedBox'.animationInterval = Null
                /\ "animate" \notin animatedBox'.box.classList
                /\ AnimationTimers' = {}
                /\ Transform' = "rotate(0deg)"
                /\ animatedBox'.box.style.background = DefaultBackground
        /\ resetAnimation(animatedBox, window).window =
               stopAnimation(animatedBox, window).window
        /\ (~animatedBox.isAnimating /\ Transform = "rotate(0deg)") =>
               (Transform' = "rotate(0deg)" /\ (AnimationTimers' # {} => StartAnimation))
      ]_vars

\* Reset after an animation had run: nothing live, the defaults in place.
C13_Witness ==
    /\ ~animatedBox.isAnimating
    /\ AnimationTimers = {}
    /\ window.nextTimerId > 1
    /\ Transform = "rotate(0deg)"
    /\ animatedBox.box.style.background = DefaultBackground

\* Timer t after n runs of its callback, one after the other.
RECURSIVE AfterTicks(_, _)
AfterTicks(t, n) ==
    IF n = 0 THEN t
    ELSE IF n = 1
    THEN LET r == animationTick(animatedBox, [window EXCEPT !.timers = {t}], t)
         IN  CHOOSE u \in r.window.timers : u.id = t.id
    ELSE LET half == AfterTicks(t, n \div 2)
         IN  IF half.id = t.id THEN AfterTicks(half, n - n \div 2) ELSE t

\* C15: the angle of a live animation timer is even and within 0..358; a
\* tick takes it to (angle + 2) modulo 360 and writes that as the
\* transform; 180 ticks bring the angle back to where it was; the transform
\* changes in no step but a tick and resetAnimation, and stopAnimation
\* leaves it as it is.
C15_Rotation ==
    /\ [](\A t \in AnimationTimers :
              LET r == animationTick(animatedBox, window, t)
                  next == (t.env + 2) % 360
              IN  /\ t.env \in 0 .. 358 /\ t.env % 2 = 0
                  /\ \E u \in r.window.timers : u.id = t.id /\ u.env = next
                  /\ r.this.box.style.transform =
                         "rotate(" \o ToString(next) \o "deg)"
                  /\ AfterTicks(t, 180) = t)
    /\ [][ /\ Transform' # Transform => (AnimationTick \/ ResetAnimation)
           /\ StopAnimation => Transform' = Transform
          ]_vars

\* A running animation back at 0 after a full turn: the background shows
\* that no reset wrote the transform.
C15_Witness ==
    /\ \E t \in AnimationTimers : t.env = 0
    /\ Transform = "rotate(0deg)"
    /\ animatedBox.box.style.background = ""

\* C16: the status becomes 'Stopped' only by a stopLoading called while
\* loading; stopLoading called while not loading leaves the status as it is.
C16_StoppedOnlyFromLoading ==
    [][ /\ (Status # "Stopped" /\ Status' = "Stopped") =>
               (StopLoading /\ loadingManager.isLoading)
        /\ (StopLoading /\ ~loadingManager.isLoading) => Status' = Status
      ]_vars

\* C17: a modal that open has displayed, with its entrance animation set,
\* is still displayed after any step: only the timeout of a close called
\* after that open hides it.
C17_OpenStaysOpen ==
    [][ (Display = "block" /\ Animation = "modalSlideIn 0.5s ease-out") =>
            Display' = "block"
      ]_vars

\* C18: isAnimating holds exactly when animationInterval is a live timer,
\* which is then the only animation timer, and exactly when the box has the
\* class 'animate'; isLoading holds exactly when loadingInterval is a live
\* timer, the only loading timer, and exactly when the bar has the class
\* 'loading', and then the status is 'Loading...'.
C18_FlagTimerClass ==
    /\ animatedBox.isAnimating <=>
           (\E t \in AnimationTimers : t.id = animatedBox.animationInterval)
    /\ animatedBox.isAnimating <=> AnimationTimers # {}
    /\ animatedBox.isAnimating <=> ("animate" \in animatedBox.box.classList)
    /\ loadingManager.isLoading <=>
           (\E t \in LoadingTimers : t.id = loadingManager.loadingInterval)
    /\ loadingManager.isLoading <=> LoadingTimers # {}
    /\ loadingManager.isLoading <=> ("loading" \in loadingManager.loadingBar.classList)
    /\ loadingManager.isLoading => Status = "Loading..."

\* A run completed while the animation, restarted once, is still turning.
C18_Witness ==
    /\ Completed
    /\ animatedBox.isAnimating
    /\ \E t \in AnimationTimers : t.env > 0
    /\ window.nextTimerId > 3

\* A run of the callback that adds at least one unit of progress.
ProgressTick ==
    \E t \in LoadingTimers : \E random \in RandomStep \ {0} :
        LET r == loadingTick(loadingManager, window, t, random)
        IN  /\ loadingManager' = r.this
            /\ window' = r.window
            /\ beat' = ~beat
            /\ UNCHANGED <<animatedBox, modalManager, debounced, throttled, trace,
                           calculation, flipCard, flips, globalCounter, scopeOutput>>

Ended == Status = "Complete!" \/ Status = "Stopped"

\* C19 as stated: with the callback run again and again, a manager that is
\* loading gets to 'Complete!' unless it is stopped, whatever the increments.
C19_EventuallyComplete == loadingManager.isLoading ~> Ended

\* C19: with the callback run again and again, a manager that is loading
\* gets to 'Complete!' unless it is stopped, provided that a manager that
\* stays loading keeps getting runs that add at least one unit of progress.
C19_CompleteIfProgress ==
    WF_vars(ProgressTick) => (loadingManager.isLoading ~> Ended)

\* A run that got to 'Complete!' through the clocked callback.
C19_Witness ==
    /\ Completed
    /\ beat
    /\ window.nextTimerId = 2

\* C20: startLoading called while not loading leaves the manager loading,
\* with status 'Loading...' and one live timer whose progress is 0; the
\* progress of a timer changes only by a tick adding its increment; and a
\* tick completes the run exactly when that sum reaches 100.
C20_RestartFromZero ==
    [][ /\ (StartLoading /\ ~loadingManager.isLoading) =>
               /\ loadingManager'.isLoading
               /\ Status' = "Loading..."
               /\ \E t \in LoadingTimers' :
                      /\ LoadingTimers' = {t}
                      /\ t.id = loadingManager'.loadingInterval
                      /\ t.env = 0
        /\ \A t \in LoadingTimers : \A u \in LoadingTimers' :
               (u.id = t.id /\ u.env # t.env) =>
                   \E random \in RandomStep :
                       /\ LoadReturns(loadingTick(loadingManager, window, t, random))
                       /\ u.env = t.env + random
        /\ \A t \in LoadingTimers : \A random \in RandomStep :
               LoadReturns(loadingTick(loadingManager, window, t, random)) =>
                   (Status' = "Complete!" <=> t.env + random >= 100)
      ]_vars

\* A third run just started, at 0, after two runs that ended.
C20_Witness ==
    /\ loadingManager.isLoading
    /\ window.nextTimerId = 4
    /\ \E t \in LoadingTimers : t.env = 0

====
